---------------------------- MODULE Spec2Model ----------------------------
(***************************************************************************)
(* sota_extractor: the task / dataset / SOTA-row tree (taskdb.py), the     *)
(* TaskDb registry and its queries, and the report loop of eval_all.py.    *)
(*                                                                         *)
(* Representation.  A JSON object is a record whose DOMAIN is its key set, *)
(* a JSON array is a sequence.  Python's None and the empty dict {} are    *)
(* both the empty function <<>>: the code only ever tests such an entry    *)
(* for truthiness.  A reference to an object is the 1-tuple <<id>> of the  *)
(* object's id, so that a reference is never None.  A Dataset's / Task's   *)
(* id is the path of list positions that leads to it from the Task(d) call *)
(* that built it (the root Task has id <<>>).  A paper_date given in the   *)
(* input is written as a 1-tuple holding the date string, because TLC      *)
(* cannot compare a string with None.                                      *)
(***************************************************************************)
EXTENDS Integers, Sequences, FiniteSets, TLC

VARIABLES
    tasks,       \* TaskDb.tasks: the dict, as the sequence of its items in insertion order
    call,        \* the most recent call on TaskDb and its arguments
    raised,      \* the exception that call propagated to its caller, or None
    row_d,       \* SotaRow.__init__: the record d it was last given
    row,         \* SotaRow.__init__: the SotaRow built from row_d, or the exception raised
    pc,          \* eval_all.py: position of the script
    sota_tasks,  \* eval_all.py: the tasks the loop has still to visit
    ev,          \* eval_all.py: the globals the loop body last set (tp, fn, fp as sizes, prec, recal)
    df           \* eval_all.py: the rows of the report so far

vars == <<tasks, call, raised, row_d, row, pc, sota_tasks, ev, df>>

-----------------------------------------------------------------------------
(* Python values *)

None == <<>>

Ref(id) == <<id>>

KeyError(k) == [exc |-> "KeyError", key |-> k]

ZeroDivisionError == [exc |-> "ZeroDivisionError"]

IsExc(v) == "exc" \in DOMAIN v

\* `if x:` on a dict or None
Truthy(d) == DOMAIN d # {}

\* the results of a list of constructor calls: did one raise, and which one first
AnyExc(s) == \E i \in 1..Len(s) : IsExc(s[i])

FirstExc(s) == s[CHOOSE i \in 1..Len(s) : IsExc(s[i]) /\ \A j \in 1..(i - 1) : ~IsExc(s[j])]

-----------------------------------------------------------------------------
(* Link *)

Link(d) ==
    [title |-> IF "title" \in DOMAIN d THEN d.title ELSE "",
     url   |-> IF "url" \in DOMAIN d THEN d.url ELSE ""]

Link_to_dict(l) == [title |-> l.title, url |-> l.url]

\* `for x_d in d[key]: if x_d: list.append(Link(x_d))`
LinkList(ds) ==
    LET kept == SelectSeq(ds, Truthy)
    IN  [i \in 1..Len(kept) |-> Link(kept[i])]

-----------------------------------------------------------------------------
(* SotaRow *)

SotaRow(d) ==
    IF "model_name" \notin DOMAIN d THEN KeyError("model_name")
    ELSE IF "metrics" \notin DOMAIN d THEN KeyError("metrics")
    ELSE [model_name  |-> d.model_name,
          paper_title |-> IF "paper_title" \in DOMAIN d THEN d.paper_title ELSE "",
          paper_url   |-> IF "paper_url" \in DOMAIN d THEN d.paper_url ELSE "",
          paper_date  |-> IF "paper_date" \in DOMAIN d THEN d.paper_date ELSE None,
          code_links  |-> IF "code_links" \in DOMAIN d THEN LinkList(d.code_links) ELSE <<>>,
          model_links |-> IF "model_links" \in DOMAIN d THEN LinkList(d.model_links) ELSE <<>>,
          metrics     |-> d.metrics]

SotaRow_to_dict(r) ==
    [model_name  |-> r.model_name,
     paper_title |-> r.paper_title,
     paper_url   |-> r.paper_url,
     paper_date  |-> r.paper_date,
     code_links  |-> [i \in 1..Len(r.code_links) |-> Link_to_dict(r.code_links[i])],
     model_links |-> [i \in 1..Len(r.model_links) |-> Link_to_dict(r.model_links[i])],
     metrics     |-> r.metrics]

-----------------------------------------------------------------------------
(* Dataset *)

RECURSIVE Dataset(_, _, _)
Dataset(d, parent, self) ==
    IF "subdataset" \notin DOMAIN d /\ "dataset" \notin DOMAIN d THEN KeyError("dataset")
    ELSE
    LET row_ds  == IF "sota" \in DOMAIN d /\ "rows" \in DOMAIN d.sota
                   THEN SelectSeq(d.sota.rows, Truthy) ELSE <<>>
        rows    == [i \in 1..Len(row_ds) |-> SotaRow(row_ds[i])]
        subd_ds == IF "subdatasets" \in DOMAIN d
                   THEN SelectSeq(d.subdatasets, Truthy) ELSE <<>>
        subs    == [i \in 1..Len(subd_ds) |-> Dataset(subd_ds[i], Ref(self), self \o <<i>>)]
        links   == IF "dataset_links" \in DOMAIN d THEN LinkList(d.dataset_links) ELSE <<>>
        cites   == IF "dataset_citations" \in DOMAIN d
                   THEN LinkList(d.dataset_citations) ELSE <<>>
    IN  IF AnyExc(rows) THEN FirstExc(rows)
        ELSE IF AnyExc(subs) THEN FirstExc(subs)
        ELSE [id                |-> self,
              dataset           |-> IF "subdataset" \in DOMAIN d THEN d.subdataset ELSE d.dataset,
              description       |-> IF "description" \in DOMAIN d THEN d.description ELSE "",
              parent            |-> parent,
              sota_metrics      |-> IF "sota" \in DOMAIN d /\ "metrics" \in DOMAIN d.sota
                                    THEN d.sota.metrics ELSE <<>>,
              sota_rows         |-> rows,
              subdatasets       |-> subs,
              dataset_links     |-> links \o cites,
              dataset_citations |-> <<>>]

\* a deliberately wrong variant: the key is chosen by whether the dataset has subdatasets
dataset_key_by_subdatasets(ds) == IF ds.subdatasets = <<>> THEN "subdataset" ELSE "dataset"

\* `if self.parent:`, the key the name is emitted under
dataset_key(ds) == IF ds.parent # None THEN "subdataset" ELSE "dataset"

\* a deliberately wrong variant: the block is emitted when there are metrics or rows
emits_sota_metrics_or_rows(ds) == ds.sota_metrics # <<>> \/ ds.sota_rows # <<>>

\* `if self.sota_metrics:`
emits_sota(ds) == ds.sota_metrics # <<>>

RECURSIVE Dataset_to_dict(_)
Dataset_to_dict(ds) ==
    (dataset_key(ds) :> ds.dataset)
    @@ [description |-> ds.description]
    @@ (IF emits_sota(ds)
        THEN [sota |-> [metrics |-> ds.sota_metrics,
                        rows    |-> [i \in 1..Len(ds.sota_rows) |->
                                        SotaRow_to_dict(ds.sota_rows[i])]]]
        ELSE <<>>)
    @@ (IF ds.subdatasets # <<>>
        THEN [subdatasets |-> [i \in 1..Len(ds.subdatasets) |->
                                  Dataset_to_dict(ds.subdatasets[i])]]
        ELSE <<>>)
    @@ [dataset_links     |-> [i \in 1..Len(ds.dataset_links) |->
                                  Link_to_dict(ds.dataset_links[i])],
        dataset_citations |-> [i \in 1..Len(ds.dataset_citations) |->
                                  Link_to_dict(ds.dataset_citations[i])]]

-----------------------------------------------------------------------------
(* Task *)

RECURSIVE Task(_, _, _)
Task(d, parent, self) ==
    IF "task" \notin DOMAIN d THEN KeyError("task")
    ELSE
    LET dataset_ds == IF "datasets" \in DOMAIN d THEN SelectSeq(d.datasets, Truthy) ELSE <<>>
        dsets      == [i \in 1..Len(dataset_ds) |-> Dataset(dataset_ds[i], None, <<i>>)]
        subt_ds    == IF "subtasks" \in DOMAIN d THEN SelectSeq(d.subtasks, Truthy) ELSE <<>>
        subs       == [i \in 1..Len(subt_ds) |-> Task(subt_ds[i], Ref(self), self \o <<i>>)]
    IN  IF AnyExc(dsets) THEN FirstExc(dsets)
        ELSE IF AnyExc(subs) THEN FirstExc(subs)
        ELSE [id          |-> self,
              task        |-> d.task,
              description |-> IF "description" \in DOMAIN d THEN d.description ELSE "",
              parent      |-> parent,
              categories  |-> IF "categories" \in DOMAIN d THEN d.categories ELSE <<>>,
              datasets    |-> dsets,
              subtasks    |-> subs,
              synonyms    |-> <<>>,
              source_link |-> IF "source_link" \in DOMAIN d THEN Link(d.source_link) ELSE None]

RECURSIVE Task_to_dict(_)
Task_to_dict(t) ==
    [task        |-> t.task,
     description |-> t.description,
     categories  |-> t.categories,
     datasets    |-> [i \in 1..Len(t.datasets) |-> Dataset_to_dict(t.datasets[i])],
     subtasks    |-> [i \in 1..Len(t.subtasks) |-> Task_to_dict(t.subtasks[i])],
     synonyms    |-> t.synonyms,
     source_link |-> IF t.source_link # None THEN Link_to_dict(t.source_link) ELSE None]

-----------------------------------------------------------------------------
(* Inputs: the records the JSON files hold *)

MaxFiles == 2    \* files named in one load_tasks call
MaxSyn == 2      \* synonyms held by the registry
MaxCount == 2    \* size of each set eval_task returns

row_min == [model_name |-> "m1", metrics |-> [acc |-> "90"]]

row_full ==
    [model_name |-> "m2", paper_title |-> "P", paper_url |-> "u", paper_date |-> <<"2019-05-01">>,
     code_links |-> <<<<>>, [title |-> "code", url |-> "c"]>>, model_links |-> <<[url |-> "w"]>>,
     metrics |-> [acc |-> "91"]]

row_no_metrics == [model_name |-> "m3"]

ds_one == [dataset |-> "d1", sota |-> [metrics |-> <<"acc">>, rows |-> <<row_min>>]]

ds_rows == [dataset |-> "d2", sota |-> [metrics |-> <<"acc">>, rows |-> <<row_full, <<>>, row_min>>]]

ds_rows_no_metrics == [dataset |-> "d3", sota |-> [rows |-> <<row_min>>]]

ds_empty ==
    [dataset |-> "d4", description |-> "no table",
     dataset_links |-> <<[title |-> "home", url |-> "h"]>>,
     dataset_citations |-> <<[title |-> "cite"]>>]

\* rows one subdataset level down; the keys are used the other way round
ds_sub ==
    [subdataset |-> "d5",
     subdatasets |-> <<[dataset |-> "d5a", sota |-> [metrics |-> <<"f1">>, rows |-> <<row_min>>]]>>]

\* rows two subdataset levels down only
ds_deep ==
    [dataset |-> "d6",
     subdatasets |-> <<[subdataset |-> "d6a",
                        subdatasets |-> <<<<>>, [subdataset |-> "d6b",
                                                 sota |-> [metrics |-> <<"acc">>,
                                                           rows |-> <<row_min>>]]>>]>>]

ds_bad == [dataset |-> "d7", sota |-> [metrics |-> <<"acc">>, rows |-> <<row_no_metrics>>]]

rec_A == [task |-> "A"]

rec_B == [task |-> "B", datasets |-> <<ds_one>>]

rec_C == [task |-> "C", subtasks |-> <<[task |-> "D", datasets |-> <<ds_one>>]>>]

rec_A2 ==
    [task |-> "A", description |-> "v2", categories |-> <<"nlp">>,
     source_link |-> [title |-> "src"],
     datasets |-> <<ds_deep>>,
     subtasks |-> <<<<>>,
                    [task |-> "B", datasets |-> <<ds_empty, ds_sub>>,
                     subtasks |-> <<[task |-> "G", datasets |-> <<ds_rows_no_metrics>>]>>],
                    [task |-> "D"]>>]

rec_B2 == [task |-> "B", description |-> "v2", datasets |-> <<<<>>, ds_rows, ds_empty>>]

rec_E == [task |-> "E", datasets |-> <<ds_one, ds_bad>>]

\* the JSON files: the example registry, a file that defines two of its
\* tasks again, and a file with a record that cannot be built
file_1 == <<rec_A, rec_B, rec_C>>

file_2 == <<rec_B2, rec_A2>>

file_3 == <<rec_B, rec_E, rec_C>>

\* `json.load(f)` of the file opened at json_file
json_load(json_file) ==
    CASE json_file = "tasks_1.json" -> file_1
      [] json_file = "tasks_2.json" -> file_2
      [] json_file = "tasks_3.json" -> file_3

JsonFiles == {"tasks_1.json", "tasks_2.json", "tasks_3.json"}

JsonFileLists == UNION {[1..n -> JsonFiles] : n \in 1..MaxFiles}

\* the CSV files: a row for an unknown task before a row for a top-level
\* task; a row for a direct subtask before a row for a subtask of a subtask
csv_reader(csv_file) ==
    CASE csv_file = "syn_1.csv" -> <<<<"Z", "zed">>, <<"B", "bee">>>>
      [] csv_file = "syn_2.csv" -> <<<<"D", "dee">>, <<"G", "gee">>>>

CsvFiles == {"syn_1.csv", "syn_2.csv"}

CsvFileLists == UNION {[1..n -> CsvFiles] : n \in 1..MaxFiles}

\* what a caller of add_task passes
AddNames == {"D"}

AddRecords == {rec_A, rec_C}

\* every record a file holds or a caller of add_task passes, and Task(t) of
\* each, tabulated: the steps below build the same objects again and again
TaskRecords ==
    AddRecords \cup UNION {{json_load(f)[i] : i \in 1..Len(json_load(f))} : f \in JsonFiles}

new_Task == [t \in TaskRecords |-> Task(t, None, <<>>)]

\* every task name of the records, and one that is in none
Names == {"A", "B", "C", "D", "E", "G", "Z"}

RECURSIVE CountSynonyms(_)
CountSynonyms(t) ==
    Len(t.synonyms)
    + (LET sub[i \in 0..Len(t.subtasks)] ==
               IF i = 0 THEN 0 ELSE sub[i - 1] + CountSynonyms(t.subtasks[i])
       IN  sub[Len(t.subtasks)])

TotalSynonyms(T) ==
    LET sum[i \in 0..Len(T)] == IF i = 0 THEN 0 ELSE sum[i - 1] + CountSynonyms(T[i].value)
    IN  sum[Len(T)]

-----------------------------------------------------------------------------
(* dict: TaskDb.tasks = {} keeps its items in insertion order; assigning to *)
(* a key that is present replaces the value where the item stands.          *)

dict_contains(dct, k) == \E i \in 1..Len(dct) : dct[i].key = k

dict_getitem(dct, k) == dct[CHOOSE i \in 1..Len(dct) : dct[i].key = k].value

\* a deliberately wrong variant: the item assigned to moves to the end
dict_setitem_move_to_end(dct, k, v) ==
    Append(SelectSeq(dct, LAMBDA item : item.key # k), [key |-> k, value |-> v])

dict_setitem(dct, k, v) ==
    IF dict_contains(dct, k)
    THEN [i \in 1..Len(dct) |-> IF dct[i].key = k THEN [key |-> k, value |-> v] ELSE dct[i]]
    ELSE Append(dct, [key |-> k, value |-> v])

dict_values(dct) == [i \in 1..Len(dct) |-> dct[i].value]

-----------------------------------------------------------------------------
(* References to Task objects held by the registry.  The Task with id p in *)
(* the tree registered under key k is referred to as <<k>> \o p.            *)

RECURSIVE Descend(_, _)
Descend(t, path) ==
    IF path = <<>> THEN t ELSE Descend(t.subtasks[Head(path)], Tail(path))

Deref(T, ref) == Descend(dict_getitem(T, Head(ref)), Tail(ref))

\* a deliberately wrong variant: the synonym goes to the top-level task of the tree
synonyms_append_root(t, path, s) == [t EXCEPT !.synonyms = Append(@, s)]

\* `task.synonyms.append(s)` on the object with id `path` in the tree rooted at t
RECURSIVE synonyms_append(_, _, _)
synonyms_append(t, path, s) ==
    IF path = <<>>
    THEN [t EXCEPT !.synonyms = Append(@, s)]
    ELSE [t EXCEPT !.subtasks[Head(path)] = synonyms_append(@, Tail(path), s)]

-----------------------------------------------------------------------------
(* TaskDb *)

\* the first direct subtask named `name`, scanning tasks.values() in order
RECURSIVE scan_subtasks(_, _, _, _)
scan_subtasks(T, name, i, j) ==
    IF i > Len(T) THEN None
    ELSE IF j > Len(T[i].value.subtasks) THEN scan_subtasks(T, name, i + 1, 1)
    ELSE IF T[i].value.subtasks[j].task = name THEN <<T[i].key, j>>
    ELSE scan_subtasks(T, name, i, j + 1)

\* a deliberately wrong variant: the subtasks are scanned before the top-level mapping is looked up
get_task_subtasks_first(T, name) ==
    IF scan_subtasks(T, name, 1, 1) # None THEN scan_subtasks(T, name, 1, 1)
    ELSE IF dict_contains(T, name) THEN <<name>> ELSE None

get_task(T, name) ==
    IF dict_contains(T, name) THEN <<name>> ELSE scan_subtasks(T, name, 1, 1)

\* a deliberately wrong variant: a name that is registered keeps its Task
add_task_keep_first(T, name, task) ==
    IF dict_contains(T, name) THEN T ELSE dict_setitem(T, name, task)

add_task(T, name, task) == dict_setitem(T, name, task)

\* `for t in task_list: TaskDb.add_task(t["task"], Task(t))`: the registry
\* after the loop and the exception that ended it, if one did
RECURSIVE load_task_list(_, _)
load_task_list(T, task_list) ==
    IF task_list = <<>> THEN [tasks |-> T, raised |-> None]
    ELSE LET t    == Head(task_list)
             task == new_Task[t]
         IN  IF IsExc(task) THEN [tasks |-> T, raised |-> task]
             ELSE load_task_list(add_task(T, t.task, task), Tail(task_list))

RECURSIVE load_tasks(_, _)
load_tasks(T, json_files) ==
    IF json_files = <<>> THEN [tasks |-> T, raised |-> None]
    ELSE LET r == load_task_list(T, json_load(Head(json_files)))
         IN  IF r.raised # None THEN r ELSE load_tasks(r.tasks, Tail(json_files))

\* `for row in reader: ...`
RECURSIVE load_synonym_rows(_, _)
load_synonym_rows(T, rows) ==
    IF rows = <<>> THEN T
    ELSE LET r    == Head(rows)
             task == get_task(T, r[1])
         IN  IF task # None
             THEN load_synonym_rows(
                      dict_setitem(T, Head(task),
                          synonyms_append(dict_getitem(T, Head(task)), Tail(task), r[2])),
                      Tail(rows))
             ELSE load_synonym_rows(T, Tail(rows))

RECURSIVE load_synonyms(_, _)
load_synonyms(T, csv_files) ==
    IF csv_files = <<>> THEN T
    ELSE load_synonyms(load_synonym_rows(T, csv_reader(Head(csv_files))), Tail(csv_files))

\* a deliberately wrong variant: only the dataset's own rows are looked at
RECURSIVE sota_flag_own_rows(_, _, _)
sota_flag_own_rows(datasets, i, add) ==
    IF i > Len(datasets) THEN add
    ELSE sota_flag_own_rows(datasets, i + 1, add \/ datasets[i].sota_rows # <<>>)

\* the flag `add` after the loop over task.datasets, from dataset i on
RECURSIVE sota_flag(_, _, _)
sota_flag(datasets, i, add) ==
    IF i > Len(datasets) THEN add
    ELSE LET d == datasets[i]
         IN  sota_flag(datasets, i + 1,
                 add \/ d.sota_rows # <<>>
                     \/ \E k \in 1..Len(d.subdatasets) : d.subdatasets[k].sota_rows # <<>>)

RECURSIVE find_sota_tasks(_, _, _)
RECURSIVE find_sota_tasks_sub(_, _, _, _)
find_sota_tasks(T, task, out) ==
    LET t == Deref(T, task)
    IN  find_sota_tasks_sub(T, task, 1,
            IF sota_flag(t.datasets, 1, FALSE) THEN Append(out, task) ELSE out)

\* `for subtask in task.subtasks: find_sota_tasks(subtask, out)`, from subtask i on
find_sota_tasks_sub(T, task, i, out) ==
    IF i > Len(Deref(T, task).subtasks) THEN out
    ELSE find_sota_tasks_sub(T, task, i + 1, find_sota_tasks(T, task \o <<i>>, out))

\* the loop over task.datasets of find_sota_datasets, from dataset i on: the
\* flag `add` is set before the loop and carried from one dataset to the next
RECURSIVE sota_datasets_loop(_, _, _, _)
sota_datasets_loop(datasets, i, add, out) ==
    IF i > Len(datasets) THEN out
    ELSE LET d    == datasets[i]
             add1 == add \/ d.sota_rows # <<>>
                         \/ \E k \in 1..Len(d.subdatasets) : d.subdatasets[k].sota_rows # <<>>
         IN  sota_datasets_loop(datasets, i + 1, add1, IF add1 THEN Append(out, d) ELSE out)

RECURSIVE find_sota_datasets(_, _)
RECURSIVE find_sota_datasets_sub(_, _, _)
find_sota_datasets(t, out) ==
    find_sota_datasets_sub(t, 1, sota_datasets_loop(t.datasets, 1, FALSE, out))

find_sota_datasets_sub(t, i, out) ==
    IF i > Len(t.subtasks) THEN out
    ELSE find_sota_datasets_sub(t, i + 1, find_sota_datasets(t.subtasks[i], out))

\* `for task in TaskDb.tasks.values(): find_sota_tasks(task, sota_tasks)`
RECURSIVE tasks_with_sota_loop(_, _, _)
tasks_with_sota_loop(T, i, out) ==
    IF i > Len(T) THEN out
    ELSE tasks_with_sota_loop(T, i + 1, find_sota_tasks(T, <<T[i].key>>, out))

tasks_with_sota(T) == tasks_with_sota_loop(T, 1, <<>>)

RECURSIVE datasets_with_sota_loop(_, _, _)
datasets_with_sota_loop(T, i, out) ==
    IF i > Len(T) THEN out
    ELSE datasets_with_sota_loop(T, i + 1, find_sota_datasets(T[i].value, out))

datasets_with_sota(T) == datasets_with_sota_loop(T, 1, <<>>)

export(T) == [i \in 1..Len(T) |-> Task_to_dict(dict_values(T)[i])]

-----------------------------------------------------------------------------
(* The registry: TaskDb's operations as its callers run them *)

NoCall == [op |-> "none"]

Init ==
    /\ tasks = <<>>
    /\ call = NoCall
    /\ raised = None
    /\ row_d = None
    /\ row = None
    /\ pc = "import"
    /\ sota_tasks = <<>>
    /\ ev = None
    /\ df = <<>>

LoadTasks(json_files) ==
    /\ pc = "import"
    /\ LET r == load_tasks(tasks, json_files)
       IN  tasks' = r.tasks /\ raised' = r.raised
    /\ call' = [op |-> "load_tasks", arg |-> json_files]
    /\ UNCHANGED <<row_d, row, pc, sota_tasks, ev, df>>

\* TaskDb.add_task(name, Task(d))
AddTask(name, d) ==
    /\ pc = "import"
    /\ LET task == new_Task[d]
       IN  IF IsExc(task)
           THEN tasks' = tasks /\ raised' = task
           ELSE tasks' = add_task(tasks, name, task) /\ raised' = None
    /\ call' = [op |-> "add_task", name |-> name, arg |-> d]
    /\ UNCHANGED <<row_d, row, pc, sota_tasks, ev, df>>

LoadSynonyms(csv_files) ==
    /\ pc = "import"
    /\ TotalSynonyms(tasks) + Len(csv_files) <= MaxSyn
    /\ tasks' = load_synonyms(tasks, csv_files)
    /\ raised' = None
    /\ call' = [op |-> "load_synonyms", arg |-> csv_files]
    /\ UNCHANGED <<row_d, row, pc, sota_tasks, ev, df>>

Next ==
    \/ \E json_files \in JsonFileLists : LoadTasks(json_files)
    \/ \E name \in AddNames, d \in AddRecords : AddTask(name, d)
    \/ \E csv_files \in CsvFileLists : LoadSynonyms(csv_files)

Spec == Init /\ [][Next]_vars

-----------------------------------------------------------------------------
(* SotaRow.__init__ on its own: every record over the keys it reads *)

RowRecords == {[k \in K |-> row_full[k]] : K \in SUBSET (DOMAIN row_full)}

NewSotaRow(d) ==
    /\ row_d' = d
    /\ row' = SotaRow(d)
    /\ UNCHANGED <<tasks, call, raised, pc, sota_tasks, ev, df>>

NextRow == \E d \in RowRecords : NewSotaRow(d)

SpecRow == Init /\ [][NextRow]_vars

-----------------------------------------------------------------------------
(* eval_all.py.  A float is kept exactly, as <<numerator, denominator>>;   *)
(* a value rounded to two places is kept as its number of hundredths.      *)

\* round(num / den, 2): to the nearest hundredth.  A quotient halfway between
\* two hundredths is rounded to the even one: below 40 such a quotient has
\* the denominator 8, so the float holds it exactly.
round_2(num, den) ==
    LET q == (100 * num) \div den
        r == (100 * num) % den
    IN  IF 2 * r < den THEN q
        ELSE IF 2 * r > den THEN q + 1
        ELSE IF q % 2 = 0 THEN q ELSE q + 1

NaN == "nan"

\* round(df[column].mean(), 2) of a column of integers: the values it can be
mean_int(column) ==
    LET n == Len(column)
        sum[i \in 0..n] == IF i = 0 THEN 0 ELSE sum[i - 1] + column[i]
    IN  IF n = 0 THEN {NaN} ELSE {round_2(sum[n], n)}

\* round(df[column].mean(), 2) of a column of floats given in hundredths: a
\* mean halfway between two hundredths goes where the float sum falls
mean_hundredths(column) ==
    LET n == Len(column)
        sum[i \in 0..n] == IF i = 0 THEN 0 ELSE sum[i - 1] + column[i]
        q == sum[n] \div n
        r == sum[n] % n
    IN  IF n = 0 THEN {NaN}
        ELSE IF 2 * r < n THEN {q}
        ELSE IF 2 * r > n THEN {q + 1}
        ELSE {q, q + 1}

\* the registry the script finds: sota_extractor.load has loaded one file
InitEval ==
    /\ \E f \in JsonFiles :
          /\ load_tasks(<<>>, <<f>>).raised = None
          /\ tasks = load_tasks(<<>>, <<f>>).tasks
          /\ call = [op |-> "load_tasks", arg |-> <<f>>]
    /\ raised = None
    /\ row_d = None
    /\ row = None
    /\ pc = "start"
    /\ sota_tasks = <<>>
    /\ ev = None
    /\ df = <<>>

\* lines 8-12
EvalStart ==
    /\ pc = "start"
    /\ sota_tasks' = tasks_with_sota(tasks)
    /\ df' = <<>>
    /\ pc' = "loop"
    /\ UNCHANGED <<tasks, call, raised, row_d, row, ev>>

\* lines 14-40, one pass of the loop; tp, fn, fp are len(tp), len(fn), len(fp)
\* of the sets eval_task returns
EvalTask(tp, fn, fp) ==
    /\ pc = "loop"
    /\ sota_tasks # <<>>
    /\ LET task  == Deref(tasks, Head(sota_tasks))
           prec  == IF tp + fp # 0 THEN <<tp, tp + fp>> ELSE <<0, 1>>
           recal == IF tp # 0 THEN <<tp, tp + fn>> ELSE <<0, 1>>
           parent == IF task.parent # None
                     THEN Deref(tasks, <<Head(Head(sota_tasks))>> \o task.parent[1]).task
                     ELSE ""
       IN  IF tp + fn = 0
           THEN \* line 22 divides by len(tp) + len(fn)
                /\ raised' = ZeroDivisionError
                /\ pc' = "raised"
                /\ ev' = [tp |-> tp, fn |-> fn, fp |-> fp, prec |-> prec, recal |-> <<0, 1>>]
                /\ UNCHANGED <<sota_tasks, df>>
           ELSE /\ ev' = [tp |-> tp, fn |-> fn, fp |-> fp, prec |-> prec, recal |-> recal]
                /\ df' = Append(df, [task |-> task.task, parent |-> parent,
                                     tp |-> tp, fn |-> fn, fp |-> fp,
                                     precision |-> round_2(prec[1], prec[2]),
                                     recall |-> round_2(recal[1], recal[2])])
                /\ sota_tasks' = Tail(sota_tasks)
                /\ UNCHANGED <<raised, pc>>
    /\ UNCHANGED <<tasks, call, row_d, row>>

\* lines 42-56: the "Total" row
EvalTotal ==
    /\ pc = "loop"
    /\ sota_tasks = <<>>
    /\ \E m_tp \in mean_int([i \in 1..Len(df) |-> df[i].tp]),
          m_fn \in mean_int([i \in 1..Len(df) |-> df[i].fn]),
          m_fp \in mean_int([i \in 1..Len(df) |-> df[i].fp]),
          m_p \in mean_hundredths([i \in 1..Len(df) |-> df[i].precision]),
          m_r \in mean_hundredths([i \in 1..Len(df) |-> df[i].recall]) :
          df' = Append(df, [task |-> "", parent |-> "Total",
                            tp |-> m_tp, fn |-> m_fn, fp |-> m_fp,
                            precision |-> m_p, recall |-> m_r])
    /\ pc' = "done"
    /\ UNCHANGED <<tasks, call, raised, row_d, row, sota_tasks, ev>>

NextEval ==
    \/ EvalStart
    \/ \E tp \in 0..MaxCount, fn \in 0..MaxCount, fp \in 0..MaxCount : EvalTask(tp, fn, fp)
    \/ EvalTotal

SpecEval == InitEval /\ [][NextEval]_vars

-----------------------------------------------------------------------------
(* Properties.  What follows states the properties of the specification; it models no code. *)

\* references to every Task the registry holds, at any depth
RECURSIVE TaskRefsUnder(_, _)
TaskRefsUnder(T, ref) ==
    {ref} \cup UNION {TaskRefsUnder(T, ref \o <<i>>) : i \in 1..Len(Deref(T, ref).subtasks)}

AllTaskRefs(T) == UNION {TaskRefsUnder(T, <<T[i].key>>) : i \in 1..Len(T)}

KeyPos(T, k) == CHOOSE i \in 1..Len(T) : T[i].key = k

\* references to the direct subtasks named `name`
DirectSubtasks(T, name) ==
    {ref \in AllTaskRefs(T) : Len(ref) = 2 /\ Deref(T, ref).task = name}

\* references to the subtasks of subtasks, at any depth, named `name`
DeeperSubtasks(T, name) ==
    {ref \in AllTaskRefs(T) : Len(ref) > 2 /\ Deref(T, ref).task = name}

HasRows(d) == d.sota_rows # <<>>

\* the per-dataset check: the dataset's own rows or its direct subdatasets' rows
DatasetHasSota(d) ==
    HasRows(d) \/ \E k \in 1..Len(d.subdatasets) : HasRows(d.subdatasets[k])

TaskHasSota(t) == \E i \in 1..Len(t.datasets) : DatasetHasSota(t.datasets[i])

\* C1: get_task(name) returns the Task registered under the top-level key
\* `name` if there is one (also when a direct subtask has that name), else a
\* direct subtask of a top-level task named `name` if there is one, else None
\* (also when the name occurs deeper in a tree).
C1_GetTask ==
    \A name \in Names :
        LET got == get_task(tasks, name)
        IN  IF \E i \in 1..Len(tasks) : tasks[i].key = name
            THEN /\ got # None
                 /\ Len(got) = 1
                 /\ Deref(tasks, got) = tasks[KeyPos(tasks, name)].value
            ELSE IF DirectSubtasks(tasks, name) # {}
            THEN got \in DirectSubtasks(tasks, name)
            ELSE got = None

\* a registry where each case of C1 occurs: a name that is a top-level key and
\* a direct subtask's name, a name of direct subtasks only, a name that occurs
\* deeper only, a name that occurs nowhere
C1_Witness ==
    /\ \E name \in Names :
          /\ \E i \in 1..Len(tasks) : tasks[i].key = name
          /\ DirectSubtasks(tasks, name) # {}
          /\ get_task(tasks, name) = <<name>>
    /\ \E name \in Names :
          /\ \A i \in 1..Len(tasks) : tasks[i].key # name
          /\ DirectSubtasks(tasks, name) # {}
          /\ get_task(tasks, name) # None
    /\ \E name \in Names :
          /\ \A i \in 1..Len(tasks) : tasks[i].key # name
          /\ DirectSubtasks(tasks, name) = {}
          /\ DeeperSubtasks(tasks, name) # {}
          /\ get_task(tasks, name) = None
    /\ \E name \in Names :
          /\ \A ref \in AllTaskRefs(tasks) : Deref(tasks, ref).task # name /\ Head(ref) # name
          /\ get_task(tasks, name) = None

\* C2 (as claimed): every dataset datasets_with_sota() returns passes the
\* per-dataset check itself.
C2_EveryReturnedDatasetHasSota ==
    \A i \in 1..Len(datasets_with_sota(tasks)) : DatasetHasSota(datasets_with_sota(tasks)[i])

\* r1 comes before r2 in the pre-order walk of the registry
PreOrderBefore(T, r1, r2) ==
    \/ KeyPos(T, Head(r1)) < KeyPos(T, Head(r2))
    \/ /\ Head(r1) = Head(r2)
       /\ \/ /\ Len(r1) < Len(r2)
             /\ \A k \in 2..Len(r1) : r1[k] = r2[k]
          \/ \E k \in 2..Len(r1) :
                /\ k <= Len(r2)
                /\ r1[k] < r2[k]
                /\ \A m \in 2..(k - 1) : r1[m] = r2[m]

\* the general part of C3: the result holds exactly the tasks, at any depth,
\* that own a dataset with rows of its own or of a direct subdataset, each
\* once, in pre-order with the top-level tasks in registry order
C3_ExactlyTheSotaTasks ==
    LET out == tasks_with_sota(tasks)
    IN  /\ {out[i] : i \in 1..Len(out)}
             = {ref \in AllTaskRefs(tasks) : TaskHasSota(Deref(tasks, ref))}
        /\ \A i, j \in 1..Len(out) : i < j => PreOrderBefore(tasks, out[i], out[j])

\* the registry of the example: A (no datasets), B (one dataset with one row),
\* C (whose subtask D has a dataset with a row)
C3_ExampleRegistry ==
    /\ [i \in 1..Len(tasks) |-> tasks[i].key] = <<"A", "B", "C">>
    /\ [i \in 1..Len(tasks) |-> tasks[i].value.task] = <<"A", "B", "C">>
    /\ tasks[1].value.datasets = <<>> /\ tasks[1].value.subtasks = <<>>
    /\ Len(tasks[2].value.datasets) = 1 /\ tasks[2].value.subtasks = <<>>
    /\ Len(tasks[2].value.datasets[1].sota_rows) = 1
    /\ tasks[3].value.datasets = <<>>
    /\ Len(tasks[3].value.subtasks) = 1
    /\ tasks[3].value.subtasks[1].task = "D"
    /\ tasks[3].value.subtasks[1].subtasks = <<>>
    /\ Len(tasks[3].value.subtasks[1].datasets) = 1
    /\ HasRows(tasks[3].value.subtasks[1].datasets[1])

\* C3 (as claimed): the general part, and the example returns [B, C, D].
C3_Original ==
    /\ C3_ExactlyTheSotaTasks
    /\ C3_ExampleRegistry => tasks_with_sota(tasks) = <<<<"B">>, <<"C">>, <<"C", 1>>>>

\* C3 (amended): the general part, and the example returns [B, D]: C owns no
\* dataset, so C itself is not returned.
C3_TasksWithSota ==
    /\ C3_ExactlyTheSotaTasks
    /\ C3_ExampleRegistry => tasks_with_sota(tasks) = <<<<"B">>, <<"C", 1>>>>

\* the example registry, queried
C3_Witness ==
    /\ C3_ExampleRegistry
    /\ tasks_with_sota(tasks) = <<<<"B">>, <<"C", 1>>>>

\* C4 (as claimed): SotaRow(d) fails when d has no model_name, and succeeds
\* when d holds model_name alone, every other field at its default.
C4_OnlyModelNameRequired ==
    row # None =>
        /\ "model_name" \notin DOMAIN row_d => IsExc(row)
        /\ DOMAIN row_d = {"model_name"} =>
              /\ ~IsExc(row)
              /\ row.model_name = row_d.model_name
              /\ row.paper_title = "" /\ row.paper_url = "" /\ row.paper_date = None
              /\ row.code_links = <<>> /\ row.model_links = <<>>

\* the records load_tasks reads from its files, in order
RECURSIVE FileRecords(_)
FileRecords(json_files) ==
    IF json_files = <<>> THEN <<>>
    ELSE json_load(Head(json_files)) \o FileRecords(Tail(json_files))

\* those of them that come before the first one Task() cannot build
LoadedRecords(json_files) ==
    LET recs == FileRecords(json_files)
        bad  == {i \in 1..Len(recs) : IsExc(new_Task[recs[i]])}
    IN  IF bad = {} THEN recs
        ELSE SubSeq(recs, 1, (CHOOSE i \in bad : \A j \in bad : i <= j) - 1)

\* C5: after load_tasks, each name its loaded records carry has exactly one
\* entry, the Task built from the last loaded record of that name (no synonym
\* of an earlier Task is left); the entries of the other names are as before.
C5_LaterLoadWins ==
    [][call'.op = "load_tasks" =>
          LET loaded == LoadedRecords(call'.arg)
          IN  /\ \A i \in 1..Len(loaded) :
                    LET name == loaded[i].task
                        last == CHOOSE j \in 1..Len(loaded) :
                                    /\ loaded[j].task = name
                                    /\ \A k \in (j + 1)..Len(loaded) : loaded[k].task # name
                    IN  /\ Cardinality({k \in 1..Len(tasks') : tasks'[k].key = name}) = 1
                        /\ dict_getitem(tasks', name) = new_Task[loaded[last]]
              /\ \A k \in 1..Len(tasks) :
                    (\A i \in 1..Len(loaded) : loaded[i].task # tasks[k].key)
                        => tasks'[k] = tasks[k]
    ]_vars

\* a load_tasks call has read two different records of one name, and the
\* registry holds the Task of the later one
C5_Witness ==
    /\ call.op = "load_tasks"
    /\ LET loaded == LoadedRecords(call.arg)
       IN  \E i, j \in 1..Len(loaded) :
              /\ i < j
              /\ loaded[i].task = loaded[j].task
              /\ loaded[i] # loaded[j]
              /\ \A k \in (j + 1)..Len(loaded) : loaded[k].task # loaded[j].task
              /\ dict_getitem(tasks, loaded[j].task) = new_Task[loaded[j]]
              /\ dict_getitem(tasks, loaded[j].task) # new_Task[loaded[i]]

\* the rows load_synonyms reads from its files, in order
RECURSIVE CsvRows(_)
CsvRows(csv_files) ==
    IF csv_files = <<>> THEN <<>>
    ELSE csv_reader(Head(csv_files)) \o CsvRows(Tail(csv_files))

\* a Task without the synonyms of its tree
RECURSIVE SansSynonyms(_)
SansSynonyms(t) ==
    [t EXCEPT !.synonyms = <<>>,
              !.subtasks = [i \in 1..Len(t.subtasks) |-> SansSynonyms(t.subtasks[i])]]

\* the synonyms of the rows that get_task resolves to the Task at ref, in order
SynonymsFor(T, rows, ref) ==
    LET sel == SelectSeq(rows, LAMBDA r : get_task(T, r[1]) = ref)
    IN  [i \in 1..Len(sel) |-> sel[i][2]]

\* C6: load_synonyms does not raise; it leaves the registry mapping and every
\* field but the synonym lists as they are; each Task's list is extended by
\* the synonyms of the rows get_task resolves to that Task, so a row that
\* get_task resolves to None changes nothing.
C6_LoadSynonyms ==
    [][call'.op = "load_synonyms" =>
          /\ raised' = None
          /\ Len(tasks') = Len(tasks)
          /\ \A k \in 1..Len(tasks) :
                /\ tasks'[k].key = tasks[k].key
                /\ SansSynonyms(tasks'[k].value) = SansSynonyms(tasks[k].value)
          /\ \A ref \in AllTaskRefs(tasks) :
                Deref(tasks', ref).synonyms
                    = Deref(tasks, ref).synonyms \o SynonymsFor(tasks, CsvRows(call'.arg), ref)
    ]_vars

\* a load_synonyms call has read a row for a name that occurs nowhere, a row
\* for a name that occurs deeper only, a row get_task resolves to a top-level
\* task and one it resolves to a direct subtask
C6_Witness ==
    /\ call.op = "load_synonyms"
    /\ LET rows == CsvRows(call.arg)
       IN  /\ \E i \in 1..Len(rows) :
                 /\ get_task(tasks, rows[i][1]) = None
                 /\ \A ref \in AllTaskRefs(tasks) : Deref(tasks, ref).task # rows[i][1]
           /\ \E i \in 1..Len(rows) :
                 /\ get_task(tasks, rows[i][1]) = None
                 /\ DeeperSubtasks(tasks, rows[i][1]) # {}
           /\ \E i, j \in 1..Len(rows) :
                 /\ Len(get_task(tasks, rows[i][1])) = 1
                 /\ Len(get_task(tasks, rows[j][1])) = 2
                 /\ Deref(tasks, get_task(tasks, rows[i][1])).synonyms = <<rows[i][2]>>
                 /\ Deref(tasks, get_task(tasks, rows[j][1])).synonyms = <<rows[j][2]>>

\* C7 (as claimed): the loop body never raises ZeroDivisionError; prec is 0
\* when |tp| + |fp| = 0 and |tp| / (|tp| + |fp|) otherwise, recal is 0 when
\* |tp| + |fn| = 0 and |tp| / (|tp| + |fn|) otherwise.
C7_DefinedZero ==
    /\ raised # ZeroDivisionError
    /\ ev # None =>
          /\ ev.prec[1] * (IF ev.tp + ev.fp = 0 THEN 1 ELSE ev.tp + ev.fp) = ev.tp * ev.prec[2]
          /\ ev.recal[1] * (IF ev.tp + ev.fn = 0 THEN 1 ELSE ev.tp + ev.fn) = ev.tp * ev.recal[2]

\* every Dataset below d, d included
RECURSIVE DatasetsUnder(_)
DatasetsUnder(d) ==
    {d} \cup UNION {DatasetsUnder(d.subdatasets[k]) : k \in 1..Len(d.subdatasets)}

NameKeys(o) == DOMAIN o \cap {"dataset", "subdataset"}

\* C8: a Dataset loaded directly under a Task has parent None and to_dict
\* emits its name under "dataset" only; a nested one has its owning Dataset as
\* parent and to_dict emits its name under "subdataset" only.
C8_ParentAndKey ==
    \A ref \in AllTaskRefs(tasks) :
        \A i \in 1..Len(Deref(tasks, ref).datasets) :
            LET d == Deref(tasks, ref).datasets[i]
            IN  /\ d.parent = None
                /\ NameKeys(Dataset_to_dict(d)) = {"dataset"}
                /\ Dataset_to_dict(d).dataset = d.dataset
                /\ \A p \in DatasetsUnder(d) :
                      \A k \in 1..Len(p.subdatasets) :
                          LET sd == p.subdatasets[k]
                          IN  /\ sd.parent = Ref(p.id)
                              /\ NameKeys(Dataset_to_dict(sd)) = {"subdataset"}
                              /\ Dataset_to_dict(sd).subdataset = sd.dataset

\* the registry holds the Dataset of ds_sub, whose record names it under
\* "subdataset" though it stands directly under a Task, and names its
\* subdataset under "dataset"
C8_Witness ==
    \E ref \in AllTaskRefs(tasks) :
        \E i \in 1..Len(Deref(tasks, ref).datasets) :
            LET d == Deref(tasks, ref).datasets[i]
            IN  /\ d = Dataset(ds_sub, None, <<i>>)
                /\ "subdataset" \in DOMAIN ds_sub
                /\ "dataset" \in DOMAIN ds_sub.subdatasets[1]
                /\ "dataset" \in DOMAIN Dataset_to_dict(d)
                /\ "subdataset" \in DOMAIN Dataset_to_dict(d).subdatasets[1]

\* the dict export() holds for the Task at ref
RECURSIVE DescendDict(_, _)
DescendDict(o, path) ==
    IF path = <<>> THEN o ELSE DescendDict(o.subtasks[Head(path)], Tail(path))

Exported(T, ref) == DescendDict(export(T)[KeyPos(T, Head(ref))], Tail(ref))

\* C9: to_dict emits "sota" iff sota_metrics is non-empty.  With metrics the
\* block holds them and every row in order; without, export() holds no rows
\* of the dataset and a Dataset built from its dict has none.
C9_SotaBlock ==
    \A ref \in AllTaskRefs(tasks) :
        \A i \in 1..Len(Deref(tasks, ref).datasets) :
            /\ Exported(tasks, ref).datasets[i] = Dataset_to_dict(Deref(tasks, ref).datasets[i])
            /\ \A d \in DatasetsUnder(Deref(tasks, ref).datasets[i]) :
                  LET o == Dataset_to_dict(d)
                  IN  /\ "sota" \in DOMAIN o <=> d.sota_metrics # <<>>
                      /\ "sota" \in DOMAIN o =>
                            /\ o.sota.metrics = d.sota_metrics
                            /\ o.sota.rows = [k \in 1..Len(d.sota_rows) |->
                                                 SotaRow_to_dict(d.sota_rows[k])]
                      /\ "sota" \notin DOMAIN o =>
                            Dataset(o, d.parent, d.id).sota_rows = <<>>

\* the registry holds a dataset with rows and no metrics, which export() emits
\* without them, and one with rows and metrics
C9_Witness ==
    /\ \E ref \in AllTaskRefs(tasks) :
          \E i \in 1..Len(Deref(tasks, ref).datasets) :
              /\ Deref(tasks, ref).datasets[i].sota_rows # <<>>
              /\ Deref(tasks, ref).datasets[i].sota_metrics = <<>>
              /\ "sota" \notin DOMAIN Exported(tasks, ref).datasets[i]
    /\ \E ref \in AllTaskRefs(tasks) :
          \E i \in 1..Len(Deref(tasks, ref).datasets) :
              /\ Len(Deref(tasks, ref).datasets[i].sota_rows) > 1
              /\ Len(Exported(tasks, ref).datasets[i].sota.rows) > 1

\* C10: no step removes or moves an entry: the keys keep their positions and
\* new keys go to the end, so the order is that of first registration;
\* add_task on a registered name puts the new Task where the old one stood
\* and leaves the other entries alone; export() follows that order.
C10_RegistryOrder ==
    [][/\ Len(tasks') >= Len(tasks)
       /\ \A i \in 1..Len(tasks) : tasks'[i].key = tasks[i].key
       /\ [i \in 1..Len(tasks') |-> export(tasks')[i].task]
              = [i \in 1..Len(tasks') |-> tasks'[i].value.task]
       /\ (call'.op = "add_task" /\ raised' = None) =>
              /\ dict_getitem(tasks', call'.name) = new_Task[call'.arg]
              /\ \A i \in 1..Len(tasks) : tasks[i].key # call'.name => tasks'[i] = tasks[i]
              /\ Len(tasks') = Len(tasks) + (IF dict_contains(tasks, call'.name) THEN 0 ELSE 1)
    ]_vars

\* add_task has replaced an entry that is not the last: had the name been
\* new, its entry would stand at the end
C10_Witness ==
    /\ call.op = "add_task"
    /\ raised = None
    /\ \E i \in 1..Len(tasks) :
          /\ i < Len(tasks)
          /\ tasks[i].key = call.name
          /\ tasks[i].value = new_Task[call.arg]

=============================================================================
